---- MODULE Spec2Model ----
(***************************************************************************)
(* Model of the Raspberry Pi vibration measurement system: the two-state   *)
(* measurement state machine (state_machine.py), the LED classes (leds.py) *)
(* and the coordinator MeasurementSystem (main.py) with its tick loop,     *)
(* USB hot-plug export and teardown.                                       *)
(*                                                                         *)
(* Time is counted in tenths of a second: 1.0 s = 10, 0.5 s = 5.           *)
(* Floating-point sensor values are counted in hundredths.                 *)
(* GPIO writes are taken to succeed (simulated mode, or working pins):     *)
(* see GpioWriteOk.                                                        *)
(***************************************************************************)
EXTENDS Integers, Sequences, FiniteSets, TLC

(***************************************************************************)
(* Program constants (tenths of a second)                                  *)
(***************************************************************************)
READING_INTERVAL == 10

MEASURING_LED_BLINK_INTERVAL == 5

USB_COPY_LED_BLINK_INTERVAL == 2

\* Imported by main.py from config; config.py does not define it. 2.0 s is
\* assumed. The distinct names of successive exports need two polls to be
\* at least one second apart (an interval of 0.5 s or more); nothing else
\* depends on the value beyond its being > 0.
USB_CHECK_INTERVAL == 20

(***************************************************************************)
(* Bounds of the model                                                     *)
(***************************************************************************)
\* time.time() when run() starts: far larger than every interval, so that
\* the first comparison against a last_* field of 0 always succeeds.
StartTime == 100

\* How far the clock may advance after StartTime.
Horizon == 40

MaxTime == StartTime + Horizon

\* Readings the store may hold.
MaxReadings == 2

\* USB polls a run may make.
MaxPolls == 5

\* Calls in a call sequence of the state-machine harness.
MaxCalls == 6

\* How far the clock may advance in the blink harness.
BlinkHorizon == 14

\* Amounts by which the clock advances over one tick (sleep plus work).
ClockSteps == {0, 10, 20}

\* Amounts by which the clock advances between two blink updates: none,
\* less than an interval, exactly an interval, a stall of several.
BlinkSteps == {0, 1, 2, 3, 5, 11}

(***************************************************************************)
(* state_machine.py                                                        *)
(***************************************************************************)
IDLE == "IDLE"

MEASURING == "MEASURING"

State == {IDLE, MEASURING}

\* Mutant: the else branch does not return to IDLE.
toggle_measurement_stuck(s) == MEASURING

toggle_measurement(s) == IF s = IDLE THEN MEASURING ELSE IDLE

stop_measurement(s) == IF s = MEASURING THEN IDLE ELSE s

is_measuring(s) == s = MEASURING

(***************************************************************************)
(* leds.py                                                                 *)
(***************************************************************************)
\* GPIO.output does not raise: either self.GPIO is None (simulated mode)
\* or the pin write succeeds.
GpioWriteOk == TRUE

turn_on(led) == IF GpioWriteOk THEN [led EXCEPT !.is_on = TRUE] ELSE led

turn_off(led) == IF GpioWriteOk THEN [led EXCEPT !.is_on = FALSE] ELSE led

\* The toggle both update methods perform.
toggle_led(led) == IF led.is_on THEN turn_off(led) ELSE turn_on(led)

\* Mutant: a strict comparison, one clock unit late.
blink_due_strict(led, t) == t - led.last_blink_time > led.blink_interval

blink_due(led, t) == t - led.last_blink_time >= led.blink_interval

MeasuringLED_update(led, t) ==
    IF blink_due(led, t)
    THEN [toggle_led(led) EXCEPT !.last_blink_time = t]
    ELSE led

\* Mutant: the light is switched on at once.
set_copying_lit(led) == turn_on([led EXCEPT !.mode = "blinking"])

set_copying(led) == [led EXCEPT !.mode = "blinking"]

\* Mutant: the mode is set and the light is left as it was.
set_copied_mode_only(led) == [led EXCEPT !.mode = "on"]

set_copied(led) == turn_on([led EXCEPT !.mode = "on"])

\* Mutant: the mode is set to off and the light is left as it was.
set_idle_mode_only(led) == [led EXCEPT !.mode = "off"]

set_idle(led) == turn_off([led EXCEPT !.mode = "off"])

CopyLED_update(led, t) ==
    IF led.mode = "blinking"
    THEN IF blink_due(led, t)
         THEN [toggle_led(led) EXCEPT !.last_blink_time = t]
         ELSE led
    ELSE IF led.mode = "on"
         THEN (IF ~led.is_on THEN turn_on(led) ELSE led)
         ELSE (IF led.is_on THEN turn_off(led) ELSE led)

IdleLED_init == [is_on |-> FALSE]

MeasuringLED_init ==
    [is_on |-> FALSE, blink_interval |-> MEASURING_LED_BLINK_INTERVAL,
     last_blink_time |-> 0]

CopyLED_init ==
    [is_on |-> FALSE, blink_interval |-> USB_COPY_LED_BLINK_INTERVAL,
     last_blink_time |-> 0, mode |-> "off"]

(***************************************************************************)
(* main.py: values                                                         *)
(***************************************************************************)
None == "None"

\* time.strftime("%Y-%m-%d %H:%M:%S") and "%Y%m%d_%H%M%S": the clock
\* truncated to whole seconds.
strftime(t) == t \div 10

\* A value of a Reading: a float, counted in hundredths, or Python's None.
Float(h) == [none |-> FALSE, hundredths |-> h]

NoValue == [none |-> TRUE, hundredths |-> 0]

\* What accelerometer.read() can do: raise, or return x, y, z (here 0.1,
\* -0.2 and 9.81).
AccelOutcomes ==
    {[ok |-> FALSE, x |-> Float(0), y |-> Float(0), z |-> Float(0)],
     [ok |-> TRUE, x |-> Float(10), y |-> Float(-20), z |-> Float(981)]}

\* What tof.read() can do when the sensor is configured: raise, or return
\* a distance (here 120.5).
TofOutcomes ==
    {[ok |-> FALSE, distance_mm |-> NoValue],
     [ok |-> TRUE, distance_mm |-> Float(12050)]}

\* The value of tof_data when self.tof is None.
NoTof == [ok |-> TRUE, distance_mm |-> NoValue]

\* Mutant: a failed distance read is tolerated and the Reading is appended
\* without a distance.
read_vibration_partial(rs, accel, tof_data, t) ==
    IF accel.ok
    THEN Append(rs, [timestamp |-> strftime(t), x |-> accel.x, y |-> accel.y,
                     z |-> accel.z, distance_mm |-> tof_data.distance_mm])
    ELSE rs

\* Mutant: the store keeps the latest Reading only.
read_vibration_latest_only(rs, accel, tof_data, t) ==
    IF accel.ok /\ tof_data.ok
    THEN <<[timestamp |-> strftime(t), x |-> accel.x, y |-> accel.y,
            z |-> accel.z, distance_mm |-> tof_data.distance_mm]>>
    ELSE rs

\* read_vibration: the new store. Both reads happen before the append, and
\* an exception of either is caught after nothing was appended.
read_vibration(rs, accel, tof_data, t) ==
    IF accel.ok /\ tof_data.ok
    THEN Append(rs, [timestamp |-> strftime(t), x |-> accel.x, y |-> accel.y,
                     z |-> accel.z, distance_mm |-> tof_data.distance_mm])
    ELSE rs

\* The mount paths _candidate_usb_paths lists, in priority order.
candidate_usb_paths ==
    <<"/media/user/LABEL", "/media/pi/LABEL", "/media/LABEL", "/run/media/user/LABEL">>

\* _find_usb_mount: the first candidate that is a directory, or None.
find_usb_mount(existing) ==
    IF \E i \in DOMAIN candidate_usb_paths : candidate_usb_paths[i] \in existing
    THEN LET i == CHOOSE j \in DOMAIN candidate_usb_paths :
                    /\ candidate_usb_paths[j] \in existing
                    /\ \A k \in 1..(j - 1) : candidate_usb_paths[k] \notin existing
         IN candidate_usb_paths[i]
    ELSE None

\* The sets of mounted directories a poll can see.
MountStates ==
    {{}, {"/media/pi/LABEL"}, {"/media/pi/LABEL", "/media/LABEL"}}

(***************************************************************************)
(* main.py: files                                                          *)
(***************************************************************************)
\* A file: whether it exists, and its lines.
NoFile == [exists |-> FALSE, lines |-> <<>>]

file_of(lines) == [exists |-> TRUE, lines |-> lines]

Header == [timestamp |-> "timestamp", x |-> "x", y |-> "y", z |-> "z",
           distance_mm |-> "distance_mm"]

\* The text of a field: empty, or a sign, the whole part and two digits of
\* fraction.
EmptyField == [empty |-> TRUE, neg |-> FALSE, whole |-> 0, frac |-> 0]

Abs(n) == IF n < 0 THEN -n ELSE n

\* Mutant: floats are written with one digit of fraction.
field_text_one_decimal(v) ==
    IF v.none THEN EmptyField
    ELSE [empty |-> FALSE, neg |-> v.hundredths < 0,
          whole |-> Abs(v.hundredths) \div 100,
          frac |-> ((Abs(v.hundredths) % 100) \div 10) * 10]

\* What csv.DictWriter writes for a value: the empty field for None, and
\* str() of a float, the decimal text that denotes exactly that float.
field_text(v) ==
    IF v.none THEN EmptyField
    ELSE [empty |-> FALSE, neg |-> v.hundredths < 0,
          whole |-> Abs(v.hundredths) \div 100,
          frac |-> Abs(v.hundredths) % 100]

\* One row: the timestamp is text already, the other values are converted.
csv_row(r) ==
    [timestamp |-> r.timestamp, x |-> field_text(r.x), y |-> field_text(r.y),
     z |-> field_text(r.z), distance_mm |-> field_text(r.distance_mm)]

\* writeheader() followed by writerows(self.readings).
csv_text(rs) == <<Header>> \o [i \in 1..Len(rs) |-> csv_row(rs[i])]

\* Outcomes of the open/write in save_readings_to_csv for a store rs:
\* OpenFails: open() raises and the file is untouched; k below the number of
\* lines: the file is truncated and the write raises after k lines (here
\* after the header); the number of lines: all of them are written.
OpenFails == -1

SaveOutcomes(rs) == {OpenFails, 1, Len(csv_text(rs))}

save_ok(rs, out) == out = Len(csv_text(rs))

\* save_readings_to_csv: the new content of the local file. The exception
\* of a failed write is caught inside and not passed on.
save_readings_to_csv(file, rs, out) ==
    IF rs = <<>> THEN file
    ELSE IF out = OpenFails THEN file
    ELSE file_of(SubSeq(csv_text(rs), 1, out))

\* Files on the drive: triples <<directory, stamp, content>>, one per name.
write_file(files, dir, stamp, content) ==
    {f \in files : ~(f[1] = dir /\ f[2] = stamp)} \cup {<<dir, stamp, content>>}

file_at(files, dir, stamp) ==
    IF \E f \in files : f[1] = dir /\ f[2] = stamp
    THEN (CHOOSE f \in files : f[1] = dir /\ f[2] = stamp)[3]
    ELSE NoFile

\* Outcomes of shutil.copy2 to the drive.
CopyOutcomes == {"ok", "io_error", "vanished"}

\* shutil.copy2(self.csv_output_path, usb_csv_path): raises when the source
\* does not exist or the copy fails; an I/O error may leave a cut-off file.
copy_ok(local, out) == local.exists /\ out = "ok"

copy2(files, local, dir, stamp, out) ==
    IF ~local.exists \/ out = "vanished" THEN files
    ELSE IF out = "ok" THEN write_file(files, dir, stamp, local)
    ELSE write_file(files, dir, stamp, file_of(<<>>))

(***************************************************************************)
(* State                                                                   *)
(***************************************************************************)
VARIABLES
    current_state,        \* state_machine.current_state
    idle_led,             \* IdleLED fields
    measuring_led,        \* MeasuringLED fields
    usb_copy_led,         \* CopyLED fields
    running,              \* self.running
    last_reading_time,    \* self.last_reading_time
    readings,             \* self.readings
    usb_present,          \* self.usb_present
    last_usb_check_time,  \* self.last_usb_check_time
    last_usb_mount,       \* self.last_usb_mount
    tof,                  \* whether self.tof is configured (TOF_ENABLED)
    pc,                   \* position of run()
    now,                  \* the wall clock, time.time()
    local_file,           \* the file at CSV_OUTPUT_PATH
    usb_files,            \* the files on the drive
    obs,                  \* history: what each USB poll observed
    attempts,             \* history: the polls that attempted an export
    last_export,          \* history: the latest export attempt
    cleanups,             \* history: completed calls of cleanup()
    flush,                \* history: how the save of cleanup() ended
    requested,            \* history: a shutdown request was raised
    empty_edges,          \* history: insertion edges seen with an empty store
    sampled,              \* history: what the sampling step of the tick did
    tick_led,             \* history: the measuring LED when the tick began
    calls,                \* harness: the state-machine calls made
    toggles               \* harness: clock values at which a blink toggled

vars ==
    <<current_state, idle_led, measuring_led, usb_copy_led, running,
      last_reading_time, readings, usb_present, last_usb_check_time,
      last_usb_mount, tof, pc, now, local_file, usb_files,
      obs, attempts, last_export, cleanups, flush, requested,
      empty_edges, sampled, tick_led, calls, toggles>>

ledVars == <<idle_led, measuring_led, usb_copy_led>>

usbVars == <<usb_present, last_usb_check_time, last_usb_mount>>

fileVars == <<local_file, usb_files>>

usbHist == <<obs, attempts, last_export, empty_edges>>

tickHist == <<sampled, tick_led>>

harnessVars == <<calls, toggles>>

exitHist == <<cleanups, flush>>

NoExport == [poll |-> 0]

\* MeasurementSystem.__init__, and run() entering its try block.
Init ==
    /\ current_state = IDLE
    /\ idle_led = turn_on(IdleLED_init)
    /\ measuring_led = MeasuringLED_init
    /\ usb_copy_led = set_idle(CopyLED_init)
    /\ running = TRUE
    /\ last_reading_time = 0
    /\ readings = <<>>
    /\ usb_present = FALSE
    /\ last_usb_check_time = 0
    /\ last_usb_mount = None
    /\ tof \in BOOLEAN
    /\ pc = "loop"
    /\ now = StartTime
    /\ local_file = NoFile
    /\ usb_files = {}
    /\ obs = <<>>
    /\ attempts = {}
    /\ last_export = NoExport
    /\ cleanups = 0
    /\ flush = "none"
    /\ requested = FALSE
    /\ empty_edges = {}
    /\ sampled = "none"
    /\ tick_led = MeasuringLED_init
    /\ calls = <<>>
    /\ toggles = [who |-> "none", measuring |-> <<>>, copy |-> <<>>]

(***************************************************************************)
(* Callbacks                                                               *)
(***************************************************************************)
\* on_begin_button_pressed: toggle, then set the LEDs for the new state.
on_begin_button_pressed ==
    /\ current_state' = toggle_measurement(current_state)
    /\ IF is_measuring(current_state')
       THEN /\ idle_led' = turn_off(idle_led)
            /\ measuring_led' = measuring_led
       ELSE /\ measuring_led' = turn_off(measuring_led)
            /\ idle_led' = turn_on(idle_led)

\* on_shutdown: stop a running measurement and clear self.running.
on_shutdown ==
    /\ current_state' = IF is_measuring(current_state)
                        THEN stop_measurement(current_state)
                        ELSE current_state
    /\ running' = FALSE

(***************************************************************************)
(* USB export                                                              *)
(***************************************************************************)
\* Mutant: the name carries no timestamp.
build_usb_csv_path_unstamped(mount_path, t) == <<mount_path, 0>>

\* _build_usb_csv_path: the name on the drive, <directory, stamp>.
build_usb_csv_path(mount_path, t) == <<mount_path, strftime(t)>>

\* Mutant: a successful copy returns without calling set_copied().
copy_csv_to_usb_unfinished(led, local, files, rs, mount_path, t, save_out, copy_out) ==
    LET blinking == set_copying(led)
        saved == save_readings_to_csv(local, rs, save_out)
        dest == build_usb_csv_path(mount_path, t)
        copied == copy2(files, saved, dest[1], dest[2], copy_out)
    IN [led |-> IF copy_ok(saved, copy_out)
                THEN blinking ELSE set_idle(blinking),
        local |-> saved,
        files |-> copied,
        copied |-> copy_ok(saved, copy_out),
        modes |-> <<led.mode, blinking.mode>>]

\* _copy_csv_to_usb with a non-empty store, run to its end: the indicator,
\* the local file and the drive afterwards.
copy_csv_to_usb(led, local, files, rs, mount_path, t, save_out, copy_out) ==
    LET blinking == set_copying(led)
        saved == save_readings_to_csv(local, rs, save_out)
        dest == build_usb_csv_path(mount_path, t)
        copied == copy2(files, saved, dest[1], dest[2], copy_out)
    IN [led |-> IF copy_ok(saved, copy_out)
                THEN set_copied(blinking) ELSE set_idle(blinking),
        local |-> saved,
        files |-> copied,
        copied |-> copy_ok(saved, copy_out),
        modes |-> <<led.mode, blinking.mode>>]

\* The record kept of an export attempt.
export_record(poll, rs, mount_path, t, saved, copied, modes, done) ==
    [poll |-> poll, snapshot |-> rs, dest |-> build_usb_csv_path(mount_path, t),
     saved |-> saved, copied |-> copied, modes |-> modes, done |-> done]

\* Mutant: the export does not look at the store.
no_readings_ignored(rs) == FALSE

\* if not self.readings: the export returns before it touches anything.
no_readings(rs) == rs = <<>>

\* Mutant: level-triggered, the presence flag is not consulted.
insertion_edge_level(mount_path, present) == mount_path # None

\* The two edges _check_usb_copy tells apart.
insertion_edge(mount_path, present) == mount_path # None /\ ~present

removal_edge(mount_path, present) == mount_path = None /\ present

\* _check_usb_copy: the poll sees the directories `existing`.
check_usb_copy(existing, save_out, copy_out) ==
    LET mount_path == find_usb_mount(existing)
        poll == Len(obs) + 1
    IN /\ obs' = Append(obs, mount_path # None)
       /\ IF insertion_edge(mount_path, usb_present)
          THEN /\ usb_present' = TRUE
               /\ last_usb_mount' = mount_path
               /\ IF no_readings(readings)
                  THEN /\ empty_edges' = empty_edges \cup {poll}
                       /\ UNCHANGED <<usb_copy_led, local_file, usb_files,
                                      attempts, last_export>>
                  ELSE LET r == copy_csv_to_usb(usb_copy_led, local_file,
                                    usb_files, readings, mount_path, now,
                                    save_out, copy_out)
                       IN /\ usb_copy_led' = r.led
                          /\ local_file' = r.local
                          /\ usb_files' = r.files
                          /\ attempts' = attempts \cup {poll}
                          /\ empty_edges' = empty_edges
                          /\ last_export' =
                                export_record(poll, readings, mount_path, now,
                                    save_ok(readings, save_out), r.copied,
                                    Append(r.modes, r.led.mode), TRUE)
          ELSE IF removal_edge(mount_path, usb_present)
          THEN /\ usb_present' = FALSE
               /\ last_usb_mount' = None
               /\ usb_copy_led' = set_idle(usb_copy_led)
               /\ UNCHANGED <<local_file, usb_files, attempts, last_export,
                              empty_edges>>
          ELSE UNCHANGED <<usb_present, last_usb_mount, usb_copy_led,
                           local_file, usb_files, attempts, last_export,
                           empty_edges>>

(***************************************************************************)
(* run(): the steps of one tick                                            *)
(***************************************************************************)
\* The local current_time = time.time() of run(), read at the sampling
\* step and used by the USB step of the same tick; the clock advances
\* between ticks.
current_time == now

\* The tick is over (or abandoned): its history is dropped.
TickOver ==
    /\ sampled' = "none"
    /\ tick_led' = MeasuringLED_init

LoopPcs == {"loop", "begin", "power", "leds", "sample", "usb", "sleep"}

\* while self.running
LoopTest ==
    /\ pc = "loop"
    /\ pc' = IF running THEN "begin" ELSE "finally"
    /\ tick_led' = IF running THEN measuring_led ELSE tick_led
    /\ sampled' = sampled
    /\ UNCHANGED <<current_state, ledVars, running, last_reading_time,
                   readings, usbVars, tof, now, fileVars,
                   usbHist, exitHist, requested, harnessVars>>

\* begin_button.check_press(): calls the callback on a press.
CheckPress(pressed) ==
    /\ pc = "begin"
    /\ pc' = "power"
    /\ IF pressed
       THEN on_begin_button_pressed
       ELSE UNCHANGED <<current_state, idle_led, measuring_led>>
    /\ UNCHANGED <<usb_copy_led, running, last_reading_time, readings,
                   usbVars, tof, now, fileVars, usbHist,
                   exitHist, tickHist, requested, harnessVars>>

\* power_button.check_hold(): calls the shutdown callback on a full hold.
CheckHold(held) ==
    /\ pc = "power"
    /\ pc' = "leds"
    /\ IF held
       THEN on_shutdown /\ requested' = TRUE
       ELSE UNCHANGED <<current_state, running, requested>>
    /\ UNCHANGED <<ledVars, last_reading_time, readings, usbVars, tof,
                   now, fileVars, usbHist, exitHist, tickHist,
                   harnessVars>>

\* Mutant: the measuring LED is updated whatever the state.
UpdateLeds_unguarded ==
    /\ pc = "leds"
    /\ pc' = "sample"
    /\ measuring_led' = MeasuringLED_update(measuring_led, now)
    /\ usb_copy_led' = CopyLED_update(usb_copy_led, now)
    /\ UNCHANGED <<current_state, idle_led, running, last_reading_time,
                   readings, usbVars, tof, now, fileVars,
                   usbHist, exitHist, tickHist, requested, harnessVars>>

\* The LED updates of the tick.
UpdateLeds ==
    /\ pc = "leds"
    /\ pc' = "sample"
    /\ measuring_led' = IF is_measuring(current_state)
                        THEN MeasuringLED_update(measuring_led, now)
                        ELSE measuring_led
    /\ usb_copy_led' = CopyLED_update(usb_copy_led, now)
    /\ UNCHANGED <<current_state, idle_led, running, last_reading_time,
                   readings, usbVars, tof, now, fileVars,
                   usbHist, exitHist, tickHist, requested, harnessVars>>

\* Mutant: the is_measuring() test is dropped.
sampling_due_unguarded(s, t, last) == t - last >= READING_INTERVAL

\* Whether the tick samples: measuring, and the interval has passed.
sampling_due(s, t, last) == is_measuring(s) /\ t - last >= READING_INTERVAL

\* current_time = time.time(), and the sampling step.
Sample(accel, tof_data) ==
    /\ pc = "sample"
    /\ pc' = "usb"
    /\ IF sampling_due(current_state, now, last_reading_time)
       THEN /\ readings' = read_vibration(readings, accel, tof_data, now)
            /\ Len(readings') <= MaxReadings
            /\ last_reading_time' = now
            /\ sampled' = IF accel.ok /\ tof_data.ok
                          THEN "reads_ok" ELSE "read_failed"
       ELSE /\ sampled' = "not_due"
            /\ UNCHANGED <<readings, last_reading_time>>
    /\ UNCHANGED <<current_state, ledVars, running, usbVars, tof, now,
                   fileVars, usbHist, exitHist, tick_led, requested,
                   harnessVars>>

usb_check_due(t, last) == t - last >= USB_CHECK_INTERVAL

\* The USB step of the tick.
UsbPoll(existing, save_out, copy_out) ==
    /\ pc = "usb"
    /\ pc' = "sleep"
    /\ IF usb_check_due(current_time, last_usb_check_time)
       THEN /\ Len(obs) < MaxPolls
            /\ last_usb_check_time' = current_time
            /\ check_usb_copy(existing, save_out, copy_out)
       ELSE UNCHANGED <<usbVars, usb_copy_led, fileVars, usbHist>>
    /\ UNCHANGED <<current_state, idle_led, measuring_led, running,
                   last_reading_time, readings, tof, now,
                   exitHist, tickHist, requested, harnessVars>>

\* time.sleep(0.05); the clock moves on by the length of the tick.
Sleep(d) ==
    /\ pc = "sleep"
    /\ pc' = "loop"
    /\ now + d <= MaxTime
    /\ now' = now + d
    /\ TickOver
    /\ UNCHANGED <<current_state, ledVars, running, last_reading_time,
                   readings, usbVars, tof, fileVars, usbHist,
                   exitHist, requested, harnessVars>>

(***************************************************************************)
(* KeyboardInterrupt: raised in the main thread wherever it is             *)
(***************************************************************************)
\* Between two statements of the loop: control goes to the except clause.
Interrupt ==
    /\ pc \in LoopPcs
    /\ pc' = "except"
    /\ requested' = TRUE
    /\ TickOver
    /\ UNCHANGED <<current_state, ledVars, running, last_reading_time,
                   readings, usbVars, tof, now, fileVars,
                   usbHist, exitHist, harnessVars>>

\* Inside on_begin_button_pressed, after the toggle and before the LEDs.
CheckPressInterrupted ==
    /\ pc = "begin"
    /\ pc' = "except"
    /\ current_state' = toggle_measurement(current_state)
    /\ requested' = TRUE
    /\ TickOver
    /\ UNCHANGED <<ledVars, running, last_reading_time, readings, usbVars,
                   tof, now, fileVars, usbHist, exitHist,
                   harnessVars>>

\* Inside on_shutdown called by the POWER button, before running = False.
CheckHoldInterrupted ==
    /\ pc = "power"
    /\ pc' = "except"
    /\ current_state' = stop_measurement(current_state)
    /\ requested' = TRUE
    /\ TickOver
    /\ UNCHANGED <<ledVars, running, last_reading_time, readings, usbVars,
                   tof, now, fileVars, usbHist, exitHist,
                   harnessVars>>

\* Inside read_vibration after the append (except Exception does not catch
\* it), before last_reading_time is set.
SampleInterrupted(accel, tof_data) ==
    /\ pc = "sample"
    /\ pc' = "except"
    /\ sampling_due(current_state, now, last_reading_time)
    /\ readings' = read_vibration(readings, accel, tof_data, now)
    /\ Len(readings') <= MaxReadings
    /\ requested' = TRUE
    /\ TickOver
    /\ UNCHANGED <<current_state, ledVars, running, last_reading_time,
                   usbVars, tof, now, fileVars, usbHist, exitHist,
                   harnessVars>>

\* Where an interrupt can cut _copy_csv_to_usb short.
ExportCuts == {"after_set_copying", "in_save", "after_copy"}

\* Inside the export of an insertion edge: the indicator was set to
\* blinking, and neither set_copied nor set_idle is reached.
UsbPollInterrupted(existing, cut, save_out) ==
    LET mount_path == find_usb_mount(existing)
        poll == Len(obs) + 1
        blinking == set_copying(usb_copy_led)
        saved == save_readings_to_csv(local_file, readings, save_out)
        dest == build_usb_csv_path(mount_path, now)
    IN /\ pc = "usb"
       /\ pc' = "except"
       /\ usb_check_due(current_time, last_usb_check_time)
       /\ Len(obs) < MaxPolls
       /\ insertion_edge(mount_path, usb_present) /\ ~no_readings(readings)
       /\ empty_edges' = empty_edges
       /\ last_usb_check_time' = current_time
       /\ obs' = Append(obs, TRUE)
       /\ usb_present' = TRUE
       /\ last_usb_mount' = mount_path
       /\ usb_copy_led' = blinking
       /\ attempts' = attempts \cup {poll}
       /\ local_file' =
            IF cut = "after_set_copying" THEN local_file
            ELSE IF cut = "in_save"
                 THEN (IF save_ok(readings, save_out) THEN local_file ELSE saved)
                 ELSE saved
       /\ usb_files' =
            IF cut = "after_copy" /\ saved.exists
            THEN copy2(usb_files, saved, dest[1], dest[2], "ok")
            ELSE usb_files
       /\ cut = "after_copy" => saved.exists
       /\ last_export' = export_record(poll, readings, mount_path, now,
                            cut # "after_set_copying" /\ save_ok(readings, save_out),
                            cut = "after_copy",
                            <<usb_copy_led.mode, blinking.mode>>, FALSE)
       /\ requested' = TRUE
       /\ TickOver
       /\ UNCHANGED <<current_state, idle_led, measuring_led, running,
                      last_reading_time, readings, tof, now,
                      exitHist, harnessVars>>

\* except KeyboardInterrupt: self.on_shutdown()
ExceptHandler ==
    /\ pc = "except"
    /\ pc' = "finally"
    /\ on_shutdown
    /\ UNCHANGED <<ledVars, last_reading_time, readings, usbVars, tof,
                   now, fileVars, usbHist, exitHist, tickHist, requested,
                   harnessVars>>

\* A further interrupt inside the except clause: on_shutdown is cut short
\* (before or after stop_measurement) and the finally clause still runs.
ExceptHandlerInterrupted(stopped) ==
    /\ pc = "except"
    /\ pc' = "finally"
    /\ current_state' = IF stopped THEN stop_measurement(current_state)
                        ELSE current_state
    /\ UNCHANGED <<ledVars, running, last_reading_time, readings, usbVars,
                   tof, now, fileVars, usbHist, exitHist, tickHist,
                   requested, harnessVars>>

\* finally: self.cleanup(), run to its end: GPIO.cleanup() and
\* save_readings_to_csv().
Cleanup(save_out) ==
    /\ pc = "finally"
    /\ pc' = "exited"
    /\ local_file' = save_readings_to_csv(local_file, readings, save_out)
    /\ cleanups' = cleanups + 1
    /\ flush' = IF readings = <<>> THEN "empty"
                ELSE IF save_ok(readings, save_out) THEN "written"
                ELSE "failed"
    /\ UNCHANGED <<current_state, ledVars, running, last_reading_time,
                   readings, usbVars, tof, now, usb_files,
                   usbHist, requested, tickHist, harnessVars>>

\* An interrupt inside cleanup(): nothing catches it; cleanup() does not
\* return. save_out = OpenFails stands for a cut before the file was opened,
\* any other value for a cut after that many lines.
CleanupInterrupted(save_out) ==
    /\ pc = "finally"
    /\ pc' = "exited"
    /\ ~save_ok(readings, save_out)
    /\ local_file' = save_readings_to_csv(local_file, readings, save_out)
    /\ flush' = "interrupted"
    /\ requested' = TRUE
    /\ UNCHANGED <<current_state, ledVars, running, last_reading_time,
                   readings, usbVars, tof, now, usb_files,
                   usbHist, cleanups, tickHist, harnessVars>>

TofInputs == IF tof THEN TofOutcomes ELSE {NoTof}

Next ==
    \/ LoopTest
    \/ \E pressed \in BOOLEAN : CheckPress(pressed)
    \/ \E held \in BOOLEAN : CheckHold(held)
    \/ UpdateLeds
    \/ \E accel \in AccelOutcomes, tof_data \in TofInputs : Sample(accel, tof_data)
    \/ \E existing \in MountStates, save_out \in SaveOutcomes(readings),
          copy_out \in CopyOutcomes : UsbPoll(existing, save_out, copy_out)
    \/ \E d \in ClockSteps : Sleep(d)
    \/ Interrupt
    \/ CheckPressInterrupted
    \/ CheckHoldInterrupted
    \/ \E accel \in AccelOutcomes, tof_data \in TofInputs :
          SampleInterrupted(accel, tof_data)
    \/ \E existing \in MountStates, cut \in ExportCuts,
          save_out \in SaveOutcomes(readings) :
          UsbPollInterrupted(existing, cut, save_out)
    \/ ExceptHandler
    \/ \E stopped \in BOOLEAN : ExceptHandlerInterrupted(stopped)
    \/ \E save_out \in SaveOutcomes(readings) : Cleanup(save_out)
    \/ \E save_out \in SaveOutcomes(readings) : CleanupInterrupted(save_out)

Spec == Init /\ [][Next]_vars

(***************************************************************************)
(* Harness: call sequences on the state machine                            *)
(***************************************************************************)
SMToggle ==
    /\ Len(calls) < MaxCalls
    /\ current_state' = toggle_measurement(current_state)
    /\ calls' = Append(calls, "toggle")
    /\ UNCHANGED <<ledVars, running, last_reading_time, readings, usbVars,
                   tof, pc, now, fileVars, usbHist, exitHist, tickHist, requested,
                   toggles>>

SMStop ==
    /\ Len(calls) < MaxCalls
    /\ current_state' = stop_measurement(current_state)
    /\ calls' = Append(calls, "stop")
    /\ UNCHANGED <<ledVars, running, last_reading_time, readings, usbVars,
                   tof, pc, now, fileVars, usbHist, exitHist, tickHist, requested,
                   toggles>>

NextSM == SMToggle \/ SMStop

SpecSM == Init /\ [][NextSM]_vars

(***************************************************************************)
(* Harness: successive polls of _check_usb_copy with a non-empty store     *)
(***************************************************************************)
\* A store as read_vibration builds it.
SampleStores ==
    LET accel == [ok |-> TRUE, x |-> Float(10), y |-> Float(-20), z |-> Float(981)]
        dist == IF tof THEN [ok |-> TRUE, distance_mm |-> Float(12050)] ELSE NoTof
        r1 == read_vibration(<<>>, accel, dist, StartTime - 20)
        r2 == read_vibration(r1, accel, dist, StartTime - 10)
    IN {r1, r2}

InitUsb == Init

\* The store was filled before the first poll.
UsbFill ==
    /\ obs = <<>>
    /\ readings = <<>>
    /\ readings' \in SampleStores
    /\ UNCHANGED <<current_state, ledVars, running, last_reading_time,
                   usbVars, tof, pc, now, fileVars, usbHist, exitHist, tickHist,
                   requested, harnessVars>>

\* One poll: what run() does when the USB check is due.
UsbHarnessPoll(existing, save_out, copy_out, d) ==
    /\ readings # <<>>
    /\ Len(obs) < MaxPolls
    /\ last_usb_check_time' = current_time
    /\ check_usb_copy(existing, save_out, copy_out)
    /\ now' = now + d
    /\ UNCHANGED <<current_state, idle_led, measuring_led, running,
                   last_reading_time, readings, tof, pc, exitHist, tickHist, requested,
                   harnessVars>>

NextUsb ==
    \/ UsbFill
    \/ \E existing \in MountStates, save_out \in SaveOutcomes(readings),
          copy_out \in CopyOutcomes :
          UsbHarnessPoll(existing, save_out, copy_out, USB_CHECK_INTERVAL)

SpecUsb == InitUsb /\ [][NextUsb]_vars

(***************************************************************************)
(* Harness: blink updates against an advancing clock                       *)
(***************************************************************************)
\* The last two toggles, with the one at time t added.
note_toggle(times, t) ==
    IF Len(times) < 2 THEN Append(times, t) ELSE <<times[2], t>>

\* The clock advances by d, then measuring_led.update() runs.
BlinkMeasuring(d) ==
    /\ now + d <= StartTime + BlinkHorizon
    /\ now' = now + d
    /\ measuring_led' = MeasuringLED_update(measuring_led, now')
    /\ toggles' = [toggles EXCEPT
            !.who = "measuring",
            !.measuring = IF measuring_led'.is_on # measuring_led.is_on
                          THEN note_toggle(@, now') ELSE @]
    /\ UNCHANGED <<current_state, idle_led, usb_copy_led, running,
                   last_reading_time, readings, usbVars, tof, pc, fileVars,
                   usbHist, exitHist, tickHist, requested, calls>>

\* The clock advances by d, then usb_copy_led.update() runs.
BlinkCopy(d) ==
    /\ now + d <= StartTime + BlinkHorizon
    /\ now' = now + d
    /\ usb_copy_led' = CopyLED_update(usb_copy_led, now')
    /\ toggles' = [toggles EXCEPT
            !.who = "copy",
            !.copy = IF usb_copy_led'.is_on # usb_copy_led.is_on
                     THEN note_toggle(@, now') ELSE @]
    /\ UNCHANGED <<current_state, idle_led, measuring_led, running,
                   last_reading_time, readings, usbVars, tof, pc, fileVars,
                   usbHist, exitHist, tickHist, requested, calls>>

\* usb_copy_led.set_copying()
BlinkSetCopying ==
    /\ usb_copy_led.mode # "blinking"
    /\ usb_copy_led' = set_copying(usb_copy_led)
    /\ toggles' = [toggles EXCEPT !.who = "set_copying"]
    /\ UNCHANGED <<current_state, idle_led, measuring_led, running,
                   last_reading_time, readings, usbVars, tof, pc, now,
                   fileVars, usbHist, exitHist, tickHist, requested, calls>>

NextBlink ==
    \/ \E d \in BlinkSteps : BlinkMeasuring(d)
    \/ \E d \in BlinkSteps : BlinkCopy(d)
    \/ BlinkSetCopying

SpecBlink == Init /\ [][NextBlink]_vars

(***************************************************************************)
(* Harness: the operations of the copy indicator in any order              *)
(***************************************************************************)
\* usb_copy_led.set_copied()
BlinkSetCopied ==
    /\ usb_copy_led' = set_copied(usb_copy_led)
    /\ toggles' = [toggles EXCEPT !.who = "set_copied"]
    /\ UNCHANGED <<current_state, idle_led, measuring_led, running,
                   last_reading_time, readings, usbVars, tof, pc, now,
                   fileVars, usbHist, exitHist, tickHist, requested, calls>>

\* usb_copy_led.set_idle()
BlinkSetIdle ==
    /\ usb_copy_led' = set_idle(usb_copy_led)
    /\ toggles' = [toggles EXCEPT !.who = "set_idle"]
    /\ UNCHANGED <<current_state, idle_led, measuring_led, running,
                   last_reading_time, readings, usbVars, tof, pc, now,
                   fileVars, usbHist, exitHist, tickHist, requested, calls>>

NextIndicator ==
    \/ BlinkSetCopying
    \/ BlinkSetCopied
    \/ BlinkSetIdle
    \/ \E d \in BlinkSteps : BlinkCopy(d)

SpecIndicator == Init /\ [][NextIndicator]_vars

(***************************************************************************)
(* Scenario: a fresh start, BEGIN pressed in the first tick, POWER held    *)
(***************************************************************************)
\* The hold time after which the POWER button calls its callback (2.0 s).
POWER_HOLD_TIME == 20

\* The ticks of the scenario are at most one sampling interval apart.
ScenarioSteps == {0, 5, READING_INTERVAL}

\* Sensor reads that succeed.
ReadsOk(outcomes) == {o \in outcomes : o.ok}

\* BEGIN is pressed once, in the first tick, at the start of the run.
ScenarioPress ==
    CheckPress(now = StartTime /\ current_state = IDLE /\ readings = <<>>)

\* POWER is held from the start of the run and released at some time after
\* the threshold: the callback runs in a tick at or after the threshold.
ScenarioHold ==
    \E held \in BOOLEAN :
        /\ held => now - StartTime >= POWER_HOLD_TIME
        /\ CheckHold(held)

ScenarioSample ==
    \E accel \in ReadsOk(AccelOutcomes), tof_data \in ReadsOk(TofInputs) :
        Sample(accel, tof_data)

\* No drive is inserted.
ScenarioUsb == UsbPoll({}, OpenFails, "ok")

ScenarioSleep == \E d \in ScenarioSteps : Sleep(d)

\* The teardown writes the local file.
ScenarioCleanup == Cleanup(Len(csv_text(readings)))

NextScenario ==
    \/ LoopTest
    \/ ScenarioPress
    \/ ScenarioHold
    \/ UpdateLeds
    \/ ScenarioSample
    \/ ScenarioUsb
    \/ ScenarioSleep
    \/ ScenarioCleanup

SpecScenario == Init /\ [][NextScenario]_vars

(***************************************************************************)
(* Claims                                                                  *)
(***************************************************************************)
\* The state a call sequence must lead to, as the specification gives it:
\* a toggle flips, a forced stop ends in Idle.
RECURSIVE ExpectedState(_)
ExpectedState(cs) ==
    IF cs = <<>> THEN IDLE
    ELSE LET before == ExpectedState(SubSeq(cs, 1, Len(cs) - 1))
         IN IF cs[Len(cs)] = "toggle"
            THEN (IF before = IDLE THEN MEASURING ELSE IDLE)
            ELSE IDLE

TogglesOnly(cs) == \A i \in DOMAIN cs : cs[i] = "toggle"

\* C1: from Idle, after any sequence of toggle_measurement() and
\* stop_measurement() calls the state is Idle or Measuring; every toggle
\* flips it, so after toggles only it is Measuring exactly after an odd
\* number of them; a stop from Measuring gives Idle and a stop from Idle
\* changes nothing.
C1_ToggleAlternates ==
    /\ [](/\ current_state \in State
          /\ current_state = ExpectedState(calls)
          /\ TogglesOnly(calls) =>
                (current_state = MEASURING <=> Len(calls) % 2 = 1))
    /\ [][/\ calls' = Append(calls, "toggle") =>
                /\ current_state' # current_state
                /\ current_state' \in State
          /\ calls' = Append(calls, "stop") =>
                /\ current_state' = IDLE
                /\ current_state = IDLE => current_state' = current_state]_vars

C1_Witness ==
    /\ calls = <<"toggle", "toggle", "toggle", "stop", "stop", "toggle">>
    /\ current_state = MEASURING

\* C2: a reading is appended only by the sampling step of a tick that sees
\* the state Measuring, one reading at a time; a step taken while the state
\* is Idle leaves the store as it is.
C2_SamplingOnlyWhileMeasuring ==
    /\ [][readings' # readings =>
            /\ pc = "sample"
            /\ current_state = MEASURING
            /\ Len(readings') = Len(readings) + 1
            /\ SubSeq(readings', 1, Len(readings)) = readings]_vars
    /\ [][current_state = IDLE => readings' = readings]_vars

C2_Witness ==
    /\ pc = "usb"
    /\ current_state = IDLE
    /\ Len(readings) = 2
    /\ usb_present

\* C3: at the end of a tick and after the loop has stopped, the idle LED is
\* on exactly when the state is Idle, and the measuring LED is off whenever
\* the state is Idle.
C3_LedsFollowState ==
    pc \in {"sleep", "finally", "exited"} =>
        /\ idle_led.is_on <=> current_state = IDLE
        /\ current_state = IDLE => ~measuring_led.is_on

\* The polls that observed the drive present right after a poll that
\* observed it absent (or as the first poll).
RisingEdges(o) == {i \in DOMAIN o : o[i] /\ (i = 1 \/ ~o[i - 1])}

\* C4: with a non-empty store, the polls that attempt an export are exactly
\* the polls that observe an absent->present transition; the observations
\* absent, present, present, absent, present give two attempts, at the
\* second and the fifth poll.
C4_ExportPerInsertionEdge ==
    /\ attempts = RisingEdges(obs)
    /\ obs = <<FALSE, TRUE, TRUE, FALSE, TRUE>> => attempts = {2, 5}

C4_Witness ==
    /\ obs = <<FALSE, TRUE, TRUE, FALSE, TRUE>>
    /\ attempts = {2, 5}
    /\ readings # <<>>

\* The latest poll attempted an export that ran to its end.
ExportJustEnded ==
    /\ last_export.poll # 0
    /\ last_export.poll = Len(obs)
    /\ last_export.done

ExportFailed == ~(last_export.saved /\ last_export.copied)

\* C5: an export in which the local write or the copy to the drive failed
\* ends with the indicator in mode Idle and its light off, never Solid.
C5_FailedExportEndsIdle ==
    (ExportJustEnded /\ ExportFailed) =>
        /\ usb_copy_led.mode = "off"
        /\ ~usb_copy_led.is_on

\* C6: an export of N >= 1 readings without I/O failure takes the indicator
\* through Idle, Blinking, Solid in that order, leaves the light on, and the
\* file it creates in the mount directory holds the header and exactly the
\* N readings the store held at the insertion edge, in order.
C6_SuccessfulExport ==
    (ExportJustEnded /\ ~ExportFailed) =>
        /\ Len(last_export.snapshot) >= 1
        /\ last_export.modes = <<"off", "blinking", "on">>
        /\ usb_copy_led.mode = "on"
        /\ usb_copy_led.is_on
        /\ LET f == file_at(usb_files, last_export.dest[1], last_export.dest[2])
           IN /\ f.exists
              /\ Len(f.lines) = Len(last_export.snapshot) + 1
              /\ f.lines[1] = Header
              /\ \A i \in 1..Len(last_export.snapshot) :
                    f.lines[i + 1] = csv_row(last_export.snapshot[i])

C6_Witness ==
    /\ ExportJustEnded
    /\ ~ExportFailed
    /\ Len(last_export.snapshot) = 2
    /\ Len(readings) = 2
    /\ pc = "sleep"

\* C7: an export is attempted only by a poll that observes the drive present
\* right after a poll that observed it absent; after a failed export, while
\* the polls keep observing the drive present, no further attempt is made
\* and the indicator stays Idle with its light off.
C7_NoRetryUntilNextEdge ==
    /\ attempts \subseteq RisingEdges(obs)
    /\ (/\ last_export.poll # 0
        /\ last_export.done
        /\ ExportFailed
        /\ \A i \in last_export.poll..Len(obs) : obs[i]) =>
            /\ \A a \in attempts : a <= last_export.poll
            /\ usb_copy_led.mode = "off"
            /\ ~usb_copy_led.is_on

\* The step was an update() of the measuring LED / of the copy LED.
MeasuringUpdated == toggles'.who = "measuring"

CopyBlinkUpdated == toggles'.who = "copy" /\ usb_copy_led.mode = "blinking"

\* What one blink update must do to an LED, reading the clock at t.
BlinkContract(before, after, t) ==
    LET due == t - before.last_blink_time >= before.blink_interval
    IN /\ (after.is_on # before.is_on) <=> due
       /\ due => after.last_blink_time = t
       /\ ~due => after = before

Spaced(times, interval) == Len(times) = 2 => times[2] - times[1] >= interval

\* C8: with a non-decreasing clock, a blink update toggles the light exactly
\* when now - last_toggle >= interval and then sets last_toggle = now, and
\* otherwise changes nothing; two successive toggles are at least one
\* interval apart, also after a stall of several intervals.
C8_BlinkToggles ==
    /\ [][/\ MeasuringUpdated =>
                BlinkContract(measuring_led, measuring_led', now')
          /\ CopyBlinkUpdated =>
                BlinkContract(usb_copy_led, usb_copy_led', now')]_vars
    /\ [](/\ Spaced(toggles.measuring, MEASURING_LED_BLINK_INTERVAL)
          /\ Spaced(toggles.copy, USB_COPY_LED_BLINK_INTERVAL))

\* A stall of more than two intervals was answered by one toggle, and the
\* update after it, less than an interval later, did not toggle.
C8_Witness ==
    /\ toggles.who = "measuring"
    /\ Len(toggles.measuring) = 2
    /\ toggles.measuring[2] - toggles.measuring[1] > 2 * MEASURING_LED_BLINK_INTERVAL
    /\ now - toggles.measuring[2] \in 1..(MEASURING_LED_BLINK_INTERVAL - 1)
    /\ measuring_led.last_blink_time = toggles.measuring[2]
    /\ Len(toggles.copy) = 2
    /\ toggles.copy[2] - toggles.copy[1] = USB_COPY_LED_BLINK_INTERVAL

\* C9: once a shutdown was requested (POWER hold or interrupt) and the run
\* has ended, the state is Idle, the teardown has run, and unless its write
\* failed the local file holds all readings of a non-empty store, in order.
C9_ShutdownRunsTeardown ==
    (pc = "exited" /\ requested) =>
        /\ current_state = IDLE
        /\ cleanups = 1
        /\ (readings # <<>> /\ flush # "failed") =>
                /\ flush = "written"
                /\ local_file = file_of(csv_text(readings))

\* C10: on every exit path, whatever interrupts arrive and wherever,
\* cleanup() has completed exactly once when the run has ended.
C10_CleanupExactlyOnce ==
    pc = "exited" => (cleanups = 1 /\ flush \in {"written", "failed", "empty"})

\* The Reading the scenario expects: taken one sampling interval after the
\* BEGIN press, with the values the sensors returned.
ScenarioReading ==
    LET accel == CHOOSE a \in ReadsOk(AccelOutcomes) : TRUE
        tof_data == CHOOSE d \in ReadsOk(TofInputs) : TRUE
    IN [timestamp |-> strftime(StartTime + READING_INTERVAL),
        x |-> accel.x, y |-> accel.y, z |-> accel.z,
        distance_mm |-> tof_data.distance_mm]

\* C11: from a fresh start with BEGIN pressed in the first tick (t = 0), the
\* state is Measuring and the idle LED off from that tick on; no Reading is
\* appended before t = 1.0 s; and when a POWER hold completing at t = 2.0 s
\* has stopped the loop, the state is Idle and the file written by the
\* teardown holds the header and exactly one row, the Reading of t = 1.0 s.
C11_BeginSampleShutdown ==
    /\ (now = StartTime /\ pc \in {"power", "leds", "sample", "usb", "sleep"}) =>
            /\ current_state = MEASURING
            /\ ~idle_led.is_on
    /\ now < StartTime + READING_INTERVAL => readings = <<>>
    /\ (pc = "exited" /\ now = StartTime + POWER_HOLD_TIME) =>
            /\ current_state = IDLE
            /\ ~running
            /\ local_file = file_of(csv_text(<<ScenarioReading>>))

\* The sampling step of a tick in which the sampling was due.
SamplingStep == pc = "sample" /\ pc' = "usb" /\ sampled' # "not_due"

\* C12: when a sensor read (accelerometer or configured ToF sensor) fails
\* in a sampling tick, the tick appends nothing, the tick goes on to its
\* next step with the loop running and the state still Measuring, and the
\* sampling is not due again in the same tick; a sampling tick whose reads
\* succeed, also one right after a failed one, appends exactly one Reading.
C12_FailedReadSkipsTick ==
    /\ [][SamplingStep =>
            /\ sampled' = "read_failed" =>
                    /\ readings' = readings
                    /\ current_state' = MEASURING
                    /\ running' = running
                    /\ ~sampling_due(current_state', now', last_reading_time')
            /\ sampled' = "reads_ok" =>
                    /\ Len(readings') = Len(readings) + 1
                    /\ SubSeq(readings', 1, Len(readings)) = readings
                    /\ readings'[Len(readings')].timestamp = strftime(now)
                    /\ tof => ~readings'[Len(readings')].distance_mm.none]_vars
    /\ [](sampled = "read_failed" =>
            (pc \in {"usb", "sleep"} /\ current_state = MEASURING))

\* A sampling tick that failed after an earlier one had appended a Reading:
\* the store still holds that Reading only.
C12_Witness ==
    /\ pc = "usb"
    /\ sampled = "read_failed"
    /\ tof
    /\ running
    /\ Len(readings) = 1
    /\ readings[1].timestamp = strftime(StartTime)
    /\ last_reading_time = StartTime + READING_INTERVAL

\* The step ran an export: the export of an insertion edge, or the save of
\* the teardown.
ExportStep == attempts' # attempts \/ flush' # flush

\* C13: over the whole run the store only grows at its end: in every step
\* the readings before the step are a prefix of the readings after it, and
\* a step that runs an export, successful or failed, leaves the store
\* exactly as it was.
C13_StoreAppendOnly ==
    /\ [][/\ Len(readings') >= Len(readings)
          /\ SubSeq(readings', 1, Len(readings)) = readings]_vars
    /\ [][ExportStep => readings' = readings]_vars

\* One Reading was exported to the drive, a second one was appended, and
\* the teardown has written both: the exported Reading is still the first.
C13_Witness ==
    /\ pc = "exited"
    /\ flush = "written"
    /\ last_export.poll # 0
    /\ last_export.done
    /\ Len(last_export.snapshot) = 1
    /\ Len(readings) = 2
    /\ readings[1] = last_export.snapshot[1]
    /\ readings[2].timestamp > readings[1].timestamp

\* Reading a file back, as csv.DictReader with float() on the numeric
\* fields and None for the empty field does.
field_value(text) ==
    IF text.empty THEN NoValue
    ELSE Float((IF text.neg THEN -1 ELSE 1) * (text.whole * 100 + text.frac))

parse_row(row) ==
    [timestamp |-> row.timestamp, x |-> field_value(row.x),
     y |-> field_value(row.y), z |-> field_value(row.z),
     distance_mm |-> field_value(row.distance_mm)]

parse_csv(lines) == [i \in 1..(Len(lines) - 1) |-> parse_row(lines[i + 1])]

\* A save that wrote the whole file: the snapshot it wrote.
WrittenSnapshot(file, rs) ==
    /\ file.exists
    /\ Len(file.lines) = Len(rs) + 1
    /\ file.lines[1] = Header
    /\ parse_csv(file.lines) = rs
    /\ \A i \in 1..Len(rs) :
            file.lines[i + 1].distance_mm.empty <=> rs[i].distance_mm.none

\* C14: after a successful save of a store of N >= 1 readings (by the
\* teardown or by an export) the local file holds the header followed by
\* exactly N rows in store order; reading the rows back gives the stored
\* sequence field for field, an absent distance being the empty field; the
\* file is a snapshot of the whole store and replaces what an earlier save
\* had written.
C14_ExportRoundTrip ==
    /\ (pc = "exited" /\ flush = "written") =>
            (Len(readings) >= 1 /\ WrittenSnapshot(local_file, readings))
    /\ (ExportJustEnded /\ last_export.saved /\ flush = "none") =>
            /\ Len(last_export.snapshot) >= 1
            /\ WrittenSnapshot(local_file, last_export.snapshot)

\* An export had saved one Reading; the teardown then saved two, without a
\* distance, and the file holds these two rows only.
C14_Witness ==
    /\ pc = "exited"
    /\ flush = "written"
    /\ ~tof
    /\ last_export.poll # 0
    /\ last_export.done
    /\ last_export.saved
    /\ Len(last_export.snapshot) = 1
    /\ Len(readings) = 2
    /\ Len(local_file.lines) = 3
    /\ local_file.lines[3].distance_mm = EmptyField
    /\ parse_csv(local_file.lines) = readings

\* The names of the files on the drive.
Names(files) == {<<f[1], f[2]>> : f \in files}

\* The step ran an export that copied the file to the drive.
CopiedStep == attempts' # attempts /\ last_export'.copied

PollStep == Len(obs') = Len(obs) + 1

SawDrive == obs'[Len(obs')]

\* C16: a poll that finds the drive gone while the presence flag is set
\* clears the flag and the remembered mount path and sets the indicator to
\* Idle with its light off; a poll that finds the drive present while the
\* flag is set, or absent while it is clear, changes neither the flag, the
\* mount path, the indicator, the store nor any file, and attempts no
\* export.
C16_PollWithoutInsertion ==
    [][PollStep =>
        /\ (usb_present /\ ~SawDrive) =>
                /\ ~usb_present'
                /\ last_usb_mount' = None
                /\ usb_copy_led'.mode = "off"
                /\ ~usb_copy_led'.is_on
                /\ UNCHANGED <<readings, local_file, usb_files, attempts>>
        /\ (usb_present <=> SawDrive) =>
                UNCHANGED <<usb_present, last_usb_mount, usb_copy_led,
                            readings, local_file, usb_files, attempts,
                            last_export>>]_vars

\* An export had left the indicator solid; the drive stayed for one more
\* poll, and the poll after that found it gone.
C16_Witness ==
    /\ pc = "sleep"
    /\ obs = <<TRUE, TRUE, FALSE>>
    /\ attempts = {1}
    /\ last_export.copied
    /\ usb_files # {}
    /\ ~usb_present
    /\ last_usb_mount = None
    /\ usb_copy_led.mode = "off"
    /\ ~usb_copy_led.is_on

\* The step was the named operation of the copy indicator.
IndicatorOp(op) == toggles'.who = op

\* C17: set_copied() sets the mode Solid and switches the light on at once;
\* set_idle() sets the mode Idle and switches the light off; set_copying()
\* sets the mode Blinking and leaves the light as it is; update() in mode
\* Solid or Idle leaves the mode, sets the light to the level of the mode,
\* does not touch the blink reference, and a second update() right after it
\* would change nothing.
C17_IndicatorOperations ==
    [][/\ IndicatorOp("set_copied") =>
            /\ usb_copy_led'.mode = "on"
            /\ usb_copy_led'.is_on
            /\ usb_copy_led'.last_blink_time = usb_copy_led.last_blink_time
       /\ IndicatorOp("set_idle") =>
            /\ usb_copy_led'.mode = "off"
            /\ ~usb_copy_led'.is_on
            /\ usb_copy_led'.last_blink_time = usb_copy_led.last_blink_time
       /\ IndicatorOp("set_copying") =>
            /\ usb_copy_led'.mode = "blinking"
            /\ usb_copy_led'.is_on = usb_copy_led.is_on
            /\ usb_copy_led'.last_blink_time = usb_copy_led.last_blink_time
       /\ (IndicatorOp("copy") /\ usb_copy_led.mode \in {"on", "off"}) =>
            /\ usb_copy_led'.mode = usb_copy_led.mode
            /\ usb_copy_led'.is_on <=> usb_copy_led.mode = "on"
            /\ usb_copy_led'.last_blink_time = usb_copy_led.last_blink_time
            /\ CopyLED_update(usb_copy_led', now') = usb_copy_led']_vars

\* The indicator blinked (its light went on and off), was set to Solid, and
\* an update() more than a blink interval after the last toggle has run.
C17_Witness ==
    /\ toggles.who = "copy"
    /\ usb_copy_led.mode = "on"
    /\ usb_copy_led.is_on
    /\ Len(toggles.copy) = 2
    /\ usb_copy_led.last_blink_time = toggles.copy[2]
    /\ now - usb_copy_led.last_blink_time > USB_COPY_LED_BLINK_INTERVAL

\* The LED-update step of the current tick has run, and saw the state Idle
\* (no later step of a tick changes the state).
IdleLedStepDone == pc \in {"sample", "usb", "sleep"} /\ current_state = IDLE

\* C18 as stated: in a tick whose LED-update step sees the state Idle, the
\* measuring LED's level and last-toggle reference are the same after the
\* LED-update step, and for the rest of the tick, as when the tick began.
C18_IdleTickLeavesMeasuringLed == IdleLedStepDone => measuring_led = tick_led

\* C18, amended: an LED-update step that sees the state Idle leaves the
\* measuring LED's level and last-toggle reference unchanged, and updates
\* the copy indicator whatever the state; over the whole of such a tick the
\* last-toggle reference is unchanged and the light is as it was when the
\* tick began or has been switched off (by the BEGIN press that ended the
\* measurement in that tick).
C18_IdleUpdateLeavesMeasuringLed ==
    /\ [][(pc = "leds" /\ pc' = "sample") =>
            /\ current_state = IDLE => measuring_led' = measuring_led
            /\ usb_copy_led' = CopyLED_update(usb_copy_led, now)]_vars
    /\ [](IdleLedStepDone =>
            /\ measuring_led.last_blink_time = tick_led.last_blink_time
            /\ measuring_led.is_on => tick_led.is_on)

\* A tick that began with the measuring LED lit, in which a BEGIN press
\* ended the measurement and the LED-update step then saw Idle.
C18_Witness ==
    /\ pc = "sample"
    /\ current_state = IDLE
    /\ running
    /\ tick_led.is_on
    /\ ~measuring_led.is_on
    /\ measuring_led.last_blink_time = tick_led.last_blink_time
    /\ now > measuring_led.last_blink_time + MEASURING_LED_BLINK_INTERVAL

PresentSince(e) == \A i \in e..Len(obs) : obs[i]

\* C20: an insertion edge observed while the store is empty is consumed
\* without an export: the presence flag is set, no file is written and the
\* indicator stays Idle; exports are attempted only with a non-empty store
\* and only at insertion edges, so readings appended afterwards are not
\* copied while the polls keep observing the drive; files reach the drive
\* only in a step that attempts an export.
C20_EmptyStoreEdgeConsumed ==
    /\ [](/\ empty_edges \cap attempts = {}
          /\ empty_edges \cup attempts = RisingEdges(obs)
          /\ \A e \in empty_edges : PresentSince(e) =>
                /\ usb_present
                /\ \A a \in attempts : a < e
                /\ usb_copy_led.mode = "off"
                /\ ~usb_copy_led.is_on)
    /\ [][/\ attempts' # attempts => readings # <<>>
          /\ usb_files' # usb_files => attempts' # attempts
          /\ (PollStep /\ empty_edges' # empty_edges) =>
                /\ readings = <<>>
                /\ ~usb_present /\ usb_present'
                /\ UNCHANGED <<usb_copy_led, local_file, usb_files, attempts>>]_vars

\* The first poll saw the drive with the store empty; two readings were
\* appended while the drive stayed mounted, and a second poll has seen it
\* again: nothing was written anywhere.
C20_Witness ==
    /\ pc = "sleep"
    /\ obs = <<TRUE, TRUE>>
    /\ empty_edges = {1}
    /\ attempts = {}
    /\ Len(readings) = 2
    /\ usb_present
    /\ usb_files = {}
    /\ local_file = NoFile
    /\ usb_copy_led.mode = "off"

====
